---- MODULE Spec2Model ----
(***************************************************************************)
(* Model of api/categorize/index.js: the "categorize" HTTP function.       *)
(* A request is filtered to its texts, the caller is resolved and charged  *)
(* against an in-memory hourly quota, the texts are packed into batches,   *)
(* every batch is added to one process-wide PQueue({interval: 1000,        *)
(* intervalCap: 1}), and the handler awaits Promise.all of the batch       *)
(* promises before it sets context.res.                                    *)
(*                                                                         *)
(* Strings are modelled structurally: a text is [ch, len] (the character   *)
(* ch repeated len times), a remote reply is [pre, val] (commentary pre    *)
(* followed by the serialisation of val).                                  *)
(***************************************************************************)
EXTENDS Integers, Sequences, FiniteSets, TLC

(* ------------------------------------------------------------------ *)
(* Program constants                                                  *)
(* ------------------------------------------------------------------ *)
MAX_CHARS == 5000

interval == 1000

intervalCap == 1

windowMs == 60 * 60 * 1000

(* ------------------------------------------------------------------ *)
(* Bounds of the model                                                *)
(* ------------------------------------------------------------------ *)
NumReq == 2

MaxTasks == 4

MaxTexts == 3

MaxCalls == 12

MaxAdvances == 2

MaxDelays == 1

(* ------------------------------------------------------------------ *)
(* Strings, entries, request inputs                                   *)
(* ------------------------------------------------------------------ *)
Str(c, n) == [ch |-> c, len |-> n]

StrLen(s) == s.len

\* typeof e.text === "string"
IsString(v) == DOMAIN v = {"ch", "len"}

\* the values an element of body.entries can take: null, an object whose
\* text is not a string, an object whose text is a string (maybe empty)
NullEntry == [kind |-> "null"]

NumberText == [num |-> 42]

Entry(t) == [kind |-> "object", text |-> t]

\* entries.map(e => (e && typeof e.text === "string" ? e.text : null))
EntryText(e) == IF e.kind = "object" /\ IsString(e.text) THEN e.text ELSE NullEntry

\* Boolean(x) for the values EntryText yields: null and "" are falsy
Truthy(v) == IsString(v) /\ StrLen(v) > 0

RECURSIVE FilterTexts(_)
FilterTexts(entries) ==
    IF entries = <<>> THEN <<>>
    ELSE LET t == EntryText(Head(entries))
         IN  IF Truthy(t) THEN <<t>> \o FilterTexts(Tail(entries))
             ELSE FilterTexts(Tail(entries))

(* ------------------------------------------------------------------ *)
(* Batching loop                                                      *)
(* ------------------------------------------------------------------ *)
BatchInit == [batches |-> <<>>, currentBatch |-> <<>>, currentLength |-> 0]

\* BatchStep with the ceiling tested before the text is counted
BatchStepLateCheck(st, text, maxChars) ==
    LET cut == st.currentLength > maxChars
        b0  == IF cut THEN Append(st.batches, st.currentBatch) ELSE st.batches
        c0  == IF cut THEN <<>> ELSE st.currentBatch
        l0  == IF cut THEN 0 ELSE st.currentLength
    IN  [batches |-> b0,
         currentBatch |-> Append(c0, text),
         currentLength |-> l0 + StrLen(text)]

\* one iteration of `for (const text of texts)`
BatchStep(st, text, maxChars) ==
    LET cut == st.currentLength + StrLen(text) > maxChars
        b0  == IF cut THEN Append(st.batches, st.currentBatch) ELSE st.batches
        c0  == IF cut THEN <<>> ELSE st.currentBatch
        l0  == IF cut THEN 0 ELSE st.currentLength
    IN  [batches |-> b0,
         currentBatch |-> Append(c0, text),
         currentLength |-> l0 + StrLen(text)]

RECURSIVE BatchLoop(_, _, _)
BatchLoop(st, texts, maxChars) ==
    IF texts = <<>> THEN st
    ELSE BatchLoop(BatchStep(st, Head(texts), maxChars), Tail(texts), maxChars)

\* MakeBatches without the trailing push of the last batch
MakeBatchesNoFinalPush(texts, maxChars) == BatchLoop(BatchInit, texts, maxChars).batches

\* the loop and the trailing `if (currentBatch.length > 0) batches.push(currentBatch)`
MakeBatches(texts, maxChars) ==
    LET st == BatchLoop(BatchInit, texts, maxChars)
    IN  IF Len(st.currentBatch) > 0 THEN Append(st.batches, st.currentBatch)
        ELSE st.batches

RECURSIVE Flatten(_)
Flatten(ss) == IF ss = <<>> THEN <<>> ELSE Head(ss) \o Flatten(Tail(ss))

RECURSIVE SumLen(_)
SumLen(b) == IF b = <<>> THEN 0 ELSE StrLen(Head(b)) + SumLen(Tail(b))

(* ------------------------------------------------------------------ *)
(* Quota: clientUsage and checkAndIncrement                           *)
(* ------------------------------------------------------------------ *)
ClientIds == {"anonymous", "u1"}

\* every caller identity a header of the model can resolve to
CallerIds == ClientIds \cup {"u2"}

\* a set that forgets the other keys
MapSetAlone(m, k, v) == [x \in {k} |-> v]

\* clientUsage.set(clientId, record)
MapSet(m, k, v) == [x \in DOMAIN m \cup {k} |-> IF x = k THEN v ELSE m[x]]

\* const limit = clientId === "anonymous" ? 200 : 10
limit(clientId) == IF clientId = "anonymous" THEN 200 ELSE 10

\* the record the call works on: the stored one, or a fresh one when there
\* is none or `now > record.resetAt`
WorkingRecord(cu, clientId, t) ==
    IF clientId \notin DOMAIN cu \/ t > cu[clientId].resetAt
    THEN [count |-> 0, resetAt |-> t + windowMs]
    ELSE cu[clientId]

\* checkAndIncrement with `>` for `>=`
checkAndIncrementOffByOne(cu, clientId, t) ==
    LET record == WorkingRecord(cu, clientId, t)
    IN  IF record.count > limit(clientId)
        THEN [ret |-> FALSE, clientUsage |-> cu]
        ELSE [ret |-> TRUE,
              clientUsage |-> MapSet(cu, clientId,
                                     [record EXCEPT !.count = record.count + 1])]

\* checkAndIncrement(clientId) at time t on the map cu: the value returned
\* and the map afterwards
checkAndIncrement(cu, clientId, t) ==
    LET record == WorkingRecord(cu, clientId, t)
    IN  IF record.count >= limit(clientId)
        THEN [ret |-> FALSE, clientUsage |-> cu]
        ELSE [ret |-> TRUE,
              clientUsage |-> MapSet(cu, clientId,
                                     [record EXCEPT !.count = record.count + 1])]

(* ------------------------------------------------------------------ *)
(* Caller identity                                                    *)
(* ------------------------------------------------------------------ *)
NoHeader == [kind |-> "absent"]

\* a header whose base64 decoding is not JSON
GarbageHeader == [kind |-> "garbage"]

\* a header that decodes to the JSON object p
PrincipalHeader(p) == [kind |-> "json", principal |-> p]

\* A claim's typ is the sequence of its characters, so that includes() is
\* the search for a substring.
NameIdTyp ==
    << "h", "t", "t", "p", ":", "/", "/", "s", "c", "h", "e", "m", "a", "s",
       ".", "x", "m", "l", "s", "o", "a", "p", ".", "o", "r", "g", "/", "w",
       "s", "/", "2", "0", "0", "5", "/", "0", "5", "/", "i", "d", "e", "n",
       "t", "i", "t", "y", "/", "c", "l", "a", "i", "m", "s", "/", "n", "a",
       "m", "e", "i", "d", "e", "n", "t", "i", "f", "i", "e", "r" >>

\* "nameidentifier", the string looked for
NameIdentifier == << "n", "a", "m", "e", "i", "d", "e", "n", "t", "i", "f", "i", "e", "r" >>

NameTyp == << "n", "a", "m", "e" >>

\* another typ that holds "nameidentifier", and one that holds it only in
\* another case
UrnNameIdTyp ==
    << "u", "r", "n", ":", "n", "a", "m", "e", "i", "d", "e", "n", "t", "i",
       "f", "i", "e", "r", ":", "v", "2" >>

UpperNameIdTyp == << "N", "a", "m", "e", "I", "d", "e", "n", "t", "i", "f", "i", "e", "r" >>

\* s.includes(sub)
Includes(s, sub) ==
    \E i \in 0 .. Len(s) - Len(sub) : SubSeq(s, i + 1, i + Len(sub)) = sub

\* c.typ.includes("nameidentifier")
TypIncludesNameId(typ) == Includes(typ, NameIdentifier)

\* claims.find(c => c.typ.includes("nameidentifier"))?.val, or "" when
\* there is none or when a claim without typ is reached first (the
\* TypeError is caught at line 191 and clientId stays "anonymous")
RECURSIVE FindNameId(_)
FindNameId(claims) ==
    IF claims = <<>> THEN ""
    ELSE IF "typ" \notin DOMAIN Head(claims) THEN ""
    ELSE IF TypIncludesNameId(Head(claims).typ) THEN Head(claims).val
    ELSE FindNameId(Tail(claims))

\* a header that decodes to the JSON value null
NullPrincipalHeader == [kind |-> "jsonnull"]

\* identity resolution that looks at the claims before userId
ResolveClientIdClaimsFirst(header) ==
    IF header.kind # "json" THEN "anonymous"
    ELSE LET p == header.principal
             userId == IF "userId" \in DOMAIN p THEN p.userId ELSE ""
             claim  == IF "claims" \in DOMAIN p THEN FindNameId(p.claims) ELSE ""
         IN  IF claim # "" THEN claim
             ELSE IF userId # "" THEN userId
             ELSE "anonymous"

\* lines 182-194: userId || claims?.find(...)?.val || "anonymous", and
\* "anonymous" when the header is absent or cannot be decoded
ResolveClientId(header) ==
    IF header.kind # "json" THEN "anonymous"
    ELSE LET p == header.principal
             userId == IF "userId" \in DOMAIN p THEN p.userId ELSE ""
             claim  == IF "claims" \in DOMAIN p THEN FindNameId(p.claims) ELSE ""
         IN  IF userId # "" THEN userId
             ELSE IF claim # "" THEN claim
             ELSE "anonymous"

(* ------------------------------------------------------------------ *)
(* Remote replies and safeParse                                       *)
(* ------------------------------------------------------------------ *)
\* JSON values a reply can carry
JArray(items) == [type |-> "array", items |-> items]

JObject == [type |-> "object"]

JNull == [type |-> "null"]

\* text that is not the serialisation of any JSON value
JBroken == [type |-> "broken"]

Item(t, c) == [text |-> t, category |-> c]

\* batch.map(text => ({text, category: c}))
RECURSIVE MapCategory(_, _)
MapCategory(batch, c) ==
    IF batch = <<>> THEN <<>>
    ELSE <<Item(Head(batch), c)>> \o MapCategory(Tail(batch), c)

\* The text of a reply: commentary `pre` followed by the serialisation of
\* `val`.  pre is "" (none), "Sure: " (no brackets) or "[sic] " (brackets that
\* are not JSON).
Content(pre, val) == [pre |-> pre, val |-> val]

\* JSON.parse(content): [ok, value]
JSONparse(content) ==
    IF content.pre = "" /\ content.val.type # "broken"
    THEN [ok |-> TRUE, value |-> content.val]
    ELSE [ok |-> FALSE, value |-> JNull]

\* content.match(/(\[.*\]|\{.*\})/s): [found, text]; the match is greedy
\* and starts at the first bracket of the content
RegexMatch(content) ==
    IF content.pre = "[sic] "
    THEN [found |-> TRUE, text |-> Content("", JBroken)]
    ELSE IF content.val.type \in {"array", "object"}
    THEN [found |-> TRUE, text |-> Content("", content.val)]
    ELSE [found |-> FALSE, text |-> content]

\* safeParse with an empty list for the fallback
safeParseEmptyFallback(content, batch) ==
    LET first == JSONparse(content)
        match == RegexMatch(content)
        second == JSONparse(match.text)
    IN  IF first.ok THEN first.value
        ELSE IF match.found /\ second.ok THEN second.value
        ELSE JArray(<<>>)

\* safeParse(content, batch)
safeParse(content, batch) ==
    LET first == JSONparse(content)
        match == RegexMatch(content)
        second == JSONparse(match.text)
    IN  IF first.ok THEN first.value
        ELSE IF match.found /\ second.ok THEN second.value
        ELSE JArray(MapCategory(batch, ""))

buildPrompt(batch) == [snippets |-> batch]

\* what anthropic.messages.create settles with: a rejection, a response
\* without a text block (or with an empty one), or a response with text
CallFailed == [kind |-> "error", message |-> "Connection error."]

NoTextBlock == [kind |-> "notext"]

TextReply(content) == [kind |-> "text", content |-> content]

DebugItem(prompt, content) == [__debugPrompt |-> prompt, __debugApiResponse |-> content]

\* The rest of the queued task after `await anthropic.messages.create`
\* (lines 239-253): [ok, value] or [ok = FALSE, error]
TaskAfterReply(batch, reply, dbgApi) ==
    IF reply.kind = "error" THEN [ok |-> FALSE, value |-> JNull, error |-> reply.message]
    ELSE IF reply.kind = "notext"
    THEN [ok |-> FALSE, value |-> JNull, error |-> "Unexpected Anthropic response"]
    ELSE LET parsed == safeParse(reply.content, batch)
         IN  IF ~dbgApi THEN [ok |-> TRUE, value |-> parsed, error |-> ""]
             ELSE IF parsed.type = "array"
             THEN [ok |-> TRUE,
                   value |-> JArray(Append(parsed.items,
                                           DebugItem(buildPrompt(batch), reply.content))),
                   error |-> ""]
             ELSE [ok |-> FALSE, value |-> JNull, error |-> "parsed is not iterable"]

\* the batches' results joined last batch first
RECURSIVE FlatReversed(_)
FlatReversed(nested) ==
    IF nested = <<>> THEN <<>>
    ELSE FlatReversed(Tail(nested))
         \o (IF Head(nested).type = "array" THEN Head(nested).items ELSE <<Head(nested)>>)

\* resultsNested.flat(): arrays are spread one level, other values kept
RECURSIVE Flat(_)
Flat(nested) ==
    IF nested = <<>> THEN <<>>
    ELSE (IF Head(nested).type = "array" THEN Head(nested).items ELSE <<Head(nested)>>)
         \o Flat(Tail(nested))

(* ------------------------------------------------------------------ *)
(* State                                                              *)
(* ------------------------------------------------------------------ *)
VARIABLES
    now,            \* Date.now()
    clientUsage,    \* the Map clientUsage
    debugMode,      \* process.env.DEBUG_MODE is "true"
    debugApiMode,   \* process.env.DEBUG_API is "true"
    pc,             \* per request: "idle", "awaiting" (at Promise.all), "done"
    input,          \* per request: [entries, header]
    clientId,       \* per request: the resolved clientId
    batches,        \* per request: the array batches
    promise,        \* per request: batchPromises, each [state, value, error]
    res,            \* per request: context.res
    queue,          \* globalQueue: the tasks not yet started, <<request, batch index>>
    intervalCount,  \* globalQueue: tasks started in the current interval
    intervalId,     \* globalQueue: the repeating interval timer runs
    nextTick,       \* globalQueue: when the repeating timer fires next (0: stopped)
    intervalEnd,    \* globalQueue: the end of the interval the timer last began
    timeoutId,      \* globalQueue: the one-shot timer to intervalEnd is armed
    pendingCount,   \* globalQueue: tasks started and not yet finished
    inFlight,       \* tasks suspended at `await anthropic.messages.create`
    admitLog,       \* history: per caller, the times checkAndIncrement returned true
    startLog,       \* history: [task, at]: the interval each task was started in
    callLog,        \* history: the tasks that called anthropic.messages.create
    outOfOrder,     \* history: per request, a batch settled before an earlier batch
    addLog,         \* history: the tasks in the order globalQueue.add was called
    replyLog,       \* history: [task, reply]: what each remote call settled with
    lastRet,        \* quota specification: the last value checkAndIncrement returned
    calls,          \* quota specification: calls of checkAndIncrement so far
    advances,       \* clock advances (quota specification), delays (handler) so far
    bTexts,         \* batching specification: the filtered texts
    bCeiling,       \* batching specification: the character ceiling
    bBatches,       \* batching specification: the batches produced
    bDone           \* batching specification: the loop has run

hvars == <<debugMode, debugApiMode, pc, input, clientId, batches, promise, res, queue,
           intervalCount, intervalId, nextTick, intervalEnd, timeoutId, pendingCount,
           inFlight, startLog, callLog, outOfOrder, addLog, replyLog>>

qvars == <<now, clientUsage, admitLog, lastRet, calls, advances>>

bvars == <<bTexts, bCeiling, bBatches, bDone>>

vars == <<hvars, qvars, bvars>>

Reqs == 1 .. NumReq

NoRes == [unset |-> TRUE]

Pending == [state |-> "pending", value |-> JNull, error |-> ""]

(* ------------------------------------------------------------------ *)
(* globalQueue = new PQueue({interval: 1000, intervalCap: 1})          *)
(* No `concurrency` option is given, so the queue bounds only the      *)
(* number of task starts per interval.  The queue keeps a count of the *)
(* starts of the current interval, a repeating timer that resets it    *)
(* (stopped whenever the queue is found empty), the time intervalEnd   *)
(* at which the interval it last began ends, and a one-shot timer that *)
(* resumes it at intervalEnd when a task is added before then.         *)
(* PQueue is the p-queue library, which src/ does not hold: these      *)
(* definitions follow the library's own source (_tryToStartAnother,    *)
(* _isIntervalPaused, _initializeIntervalIfNeeded, _onInterval,        *)
(* _onResumeInterval, _processQueue, _next).                           *)
(* L is the record of the queue's fields with the promises and the     *)
(* logs; bat is the batches of every request, t the current time,      *)
(* bypass is `debugMode && !debugApiMode`.                             *)
(* ------------------------------------------------------------------ *)
Limiter == [queue |-> queue, intervalCount |-> intervalCount,
            pendingCount |-> pendingCount, intervalId |-> intervalId,
            nextTick |-> nextTick, intervalEnd |-> intervalEnd,
            timeoutId |-> timeoutId, promise |-> promise,
            inFlight |-> inFlight, startLog |-> startLog, callLog |-> callLog,
            addLog |-> addLog]

Fulfilled(v) == [state |-> "fulfilled", value |-> v, error |-> ""]

Rejected(msg) == [state |-> "rejected", value |-> JNull, error |-> msg]

\* the queue may start its next task
DoesIntervalAllowAnother(L) == L.intervalCount < intervalCap

\* clearInterval: the repeating timer is stopped
ClearInterval(L) == [L EXCEPT !.intervalId = FALSE, !.nextTick = 0]

\* the queue's test whether the interval is paused, at time t: it is when
\* the repeating timer is stopped and intervalEnd has not passed
IsIntervalPaused(L, t) == ~L.intervalId /\ ~(L.intervalEnd - t < 0)

\* what that test does to the queue: with the timer stopped, a passed
\* intervalEnd resets the count, one still ahead arms the one-shot timer
AfterPauseTest(L, t) ==
    IF L.intervalId THEN L
    ELSE IF L.intervalEnd - t < 0 THEN [L EXCEPT !.intervalCount = 0]
    ELSE [L EXCEPT !.timeoutId = TRUE]

\* the repeating timer is started unless it runs; only here is
\* intervalEnd set
InitializeIntervalIfNeeded(L, t) ==
    IF L.intervalId THEN L
    ELSE [L EXCEPT !.intervalId = TRUE,
                   !.nextTick = t + interval,
                   !.intervalEnd = t + interval]

\* One attempt to start the head of the queue at time t.  An empty queue
\* stops the repeating timer.  A started task runs to its first
\* suspension: it is counted and, unless in bypass mode, calls
\* anthropic.messages.create.
TryToStartAnother(L, bat, t, bypass) ==
    IF L.queue = <<>> THEN ClearInterval(L)
    ELSE LET canInitializeInterval == ~IsIntervalPaused(L, t)
             L1 == AfterPauseTest(L, t)
             task == Head(L1.queue)
             L2 == [L1 EXCEPT !.queue = Tail(@),
                              !.pendingCount = @ + 1,
                              !.intervalCount = @ + 1,
                              !.startLog = Append(@, [task |-> task, at |-> t]),
                              !.inFlight = @ \cup {task},
                              !.callLog = IF bypass THEN @ ELSE @ \cup {task}]
         IN  IF ~DoesIntervalAllowAnother(L1) THEN L1
             ELSE IF canInitializeInterval THEN InitializeIntervalIfNeeded(L2, t)
             ELSE L2

\* `while (this._tryToStartAnother()) {}`: until an attempt starts nothing
RECURSIVE ProcessQueue(_, _, _, _)
ProcessQueue(L, bat, t, bypass) ==
    LET L1 == TryToStartAnother(L, bat, t, bypass)
    IN  IF Len(L1.queue) < Len(L.queue) THEN ProcessQueue(L1, bat, t, bypass) ELSE L1

\* In bypass mode a started task returns without suspending: once the
\* running code has ended its promise is fulfilled, the queue counts it
\* finished and makes another attempt.
RECURSIVE SettleBypassed(_, _, _, _)
SettleBypassed(L, bat, t, bypass) ==
    IF ~bypass \/ L.inFlight = {} THEN L
    ELSE LET task == CHOOSE x \in L.inFlight : TRUE
             r == task[1]
             i == task[2]
             L1 == [L EXCEPT !.promise[r][i] =
                                 Fulfilled(JArray(MapCategory(bat[r][i], ""))),
                             !.inFlight = @ \ {task},
                             !.pendingCount = @ - 1]
         IN  SettleBypassed(TryToStartAnother(L1, bat, t, bypass), bat, t, bypass)

\* the callback of both timers: an idle queue stops the repeating timer;
\* the count is reset and the queue processed
OnInterval(L, bat, t, bypass) ==
    LET L0 == IF L.intervalCount = 0 /\ L.pendingCount = 0 /\ L.intervalId
              THEN ClearInterval(L) ELSE L
    IN  ProcessQueue([L0 EXCEPT !.intervalCount = 0], bat, t, bypass)

\* the queue with the task put in front of the waiting ones
EnqueueFirst(q, task) == <<task>> \o q

\* the queue's enqueue with every task at the default priority: the task
\* goes behind the waiting ones
Enqueue(q, task) == Append(q, task)

\* globalQueue.add(task) for the tasks in order: enqueue, then one attempt
RECURSIVE AddAll(_, _, _, _, _)
AddAll(L, tasks, bat, t, bypass) ==
    IF tasks = <<>> THEN L
    ELSE AddAll(TryToStartAnother([L EXCEPT !.queue = Enqueue(@, Head(tasks)),
                                            !.addLog = Append(@, Head(tasks))],
                                  bat, t, bypass),
                Tail(tasks), bat, t, bypass)

(* ------------------------------------------------------------------ *)
(* The handler after `await Promise.all(batchPromises)`                *)
(* ------------------------------------------------------------------ *)
RECURSIVE Values(_)
Values(ps) == IF ps = <<>> THEN <<>> ELSE <<Head(ps).value>> \o Values(Tail(ps))

SuccessRes(results) ==
    [headers |-> [ContentType |-> "application/json"],
     body |-> [success |-> TRUE, results |-> results]]

FailureRes(msg) == [status |-> 500, body |-> [success |-> FALSE, error |-> msg]]

RateLimitRes == [status |-> 429, body |-> [error |-> "Hourly limit exceeded"]]

\* Promise.all settles: rejected with the first rejection, fulfilled with
\* the values in the order of batchPromises once every one is fulfilled
AnyRejected(ps) == \E i \in 1 .. Len(ps) : ps[i].state = "rejected"

AllFulfilled(ps) == \A i \in 1 .. Len(ps) : ps[i].state = "fulfilled"

FirstError(ps) ==
    ps[CHOOSE i \in 1 .. Len(ps) :
          /\ ps[i].state = "rejected"
          /\ \A j \in 1 .. i - 1 : ps[j].state # "rejected"].error

\* the response built from whatever the batches gave once all have settled
ResAfterAllSettled(ps) ==
    IF \A i \in 1 .. Len(ps) : ps[i].state # "pending"
    THEN SuccessRes(Flat(Values(ps)))
    ELSE NoRes

\* the handler without its catch: a rejection is never answered
ResAfterAllNoCatch(ps) ==
    IF AllFulfilled(ps) THEN SuccessRes(Flat(Values(ps))) ELSE NoRes

\* lines 256-266 for a request suspended at Promise.all: context.res, or
\* NoRes while Promise.all is pending
ResAfterAll(ps) ==
    IF AnyRejected(ps) THEN FailureRes(FirstError(ps))
    ELSE IF AllFulfilled(ps) THEN SuccessRes(Flat(Values(ps)))
    ELSE NoRes

\* every suspended handler whose Promise.all has settled runs to its end
ResumePc(pcs, proms) ==
    [r \in Reqs |-> IF pcs[r] = "awaiting" /\ ResAfterAll(proms[r]) # NoRes
                    THEN "done" ELSE pcs[r]]

ResumeRes(pcs, proms, rs) ==
    [r \in Reqs |-> IF pcs[r] = "awaiting" /\ ResAfterAll(proms[r]) # NoRes
                    THEN ResAfterAll(proms[r]) ELSE rs[r]]

(* ------------------------------------------------------------------ *)
(* Inputs                                                             *)
(* ------------------------------------------------------------------ *)
Short == Str("a", 10)

HalfB == Str("b", 3000)

HalfC == Str("c", 3000)

Big == Str("d", MAX_CHARS + 1)

\* request bodies: no usable entry; one usable text after an unusable entry;
\* two texts that do not fit one batch; an oversized text first
EntryLists ==
    { <<NullEntry, Entry(NumberText), Entry(Str("", 0))>>,
      <<NullEntry, Entry(Short)>>,
      <<Entry(HalfB), Entry(HalfC)>>,
      <<Entry(Big), Entry(Short)>> }

\* the request bodies of the handler specification
CoreEntryLists ==
    { <<NullEntry, Entry(NumberText), Entry(Str("", 0))>>,
      <<Entry(HalfB), Entry(HalfC)>> }

Headers ==
    { NoHeader,
      GarbageHeader,
      PrincipalHeader([userId |-> "u1"]),
      PrincipalHeader([claims |-> << [typ |-> NameTyp, val |-> "x"],
                                     [typ |-> NameIdTyp, val |-> "u1"] >>]),
      PrincipalHeader([userDetails |-> "u1@example.com"]) }

\* the headers of the requests of the handler specification
CoreHeaders == {NoHeader, PrincipalHeader([userId |-> "u1"])}

\* what the remote call for a batch can settle with
Replies(batch) ==
    { CallFailed,
      NoTextBlock,
      TextReply(Content("", JArray(MapCategory(batch, "PROB")))),
      TextReply(Content("", JArray(<<>>))),
      TextReply(Content("", JObject)),
      TextReply(Content("", JBroken)),
      TextReply(Content("Sure: ", JArray(MapCategory(batch, "SOLN")))),
      TextReply(Content("Sure: ", JNull)),
      TextReply(Content("[sic] ", JArray(MapCategory(batch, "PROB")))) }

\* the replies of the handler specification: a failing and a well-formed one
CoreReplies(batch) ==
    { NoTextBlock,
      TextReply(Content("", JArray(MapCategory(batch, "PROB")))) }

(* ------------------------------------------------------------------ *)
(* The handler and the events it waits for                            *)
(* ------------------------------------------------------------------ *)
\* the function called `n` times with the same clientId at time t
RECURSIVE Admitted(_, _, _, _)
Admitted(cu, id, t, n) ==
    IF n = 0 THEN cu ELSE Admitted(checkAndIncrement(cu, id, t).clientUsage, id, t, n - 1)

RECURSIVE Repeat(_, _)
Repeat(x, n) == IF n = 0 THEN <<>> ELSE <<x>> \o Repeat(x, n - 1)

EmptyMap == [x \in {} |-> 0]

\* the quota when the requests arrive: the process has admitted n
\* requests of "u1" at time 0
Preloads == {0, 9}

Tasks(r, n) == [i \in 1 .. n |-> <<r, i>>]

\* the handler going on after a refused quota check
AdmitsAlways(q) == TRUE

\* `if (!checkAndIncrement(clientId)) { ...; return; }`: the handler goes on
Admits(q) == q.ret

\* the remote call made whatever the flags
BypassNever == FALSE

\* `if (debugMode && !debugApiMode)`: the task returns without a remote call
Bypass == debugMode /\ ~debugApiMode

\* the variables the queue and its tasks write
lvars == <<promise, queue, intervalCount, pendingCount, intervalId, nextTick,
           intervalEnd, timeoutId, inFlight, startLog, callLog, addLog>>

\* the queue is left as L, and every handler whose Promise.all has
\* settled runs to its end
Install(L, pcs) ==
    /\ promise' = L.promise
    /\ queue' = L.queue
    /\ intervalCount' = L.intervalCount
    /\ pendingCount' = L.pendingCount
    /\ intervalId' = L.intervalId
    /\ nextTick' = L.nextTick
    /\ intervalEnd' = L.intervalEnd
    /\ timeoutId' = L.timeoutId
    /\ inFlight' = L.inFlight
    /\ startLog' = L.startLog
    /\ callLog' = L.callLog
    /\ addLog' = L.addLog
    /\ pc' = ResumePc(pcs, L.promise)
    /\ res' = ResumeRes(pcs, L.promise, res)

\* lines 161-256: the handler from its start to its first suspension
Handle(r, entries, header) ==
    /\ pc[r] = "idle"
    /\ \A k \in 1 .. r - 1 : pc[k] # "idle"
    /\ Len(startLog) + Len(queue) + Len(MakeBatches(FilterTexts(entries), MAX_CHARS)) <= MaxTasks
    /\ LET texts == FilterTexts(entries)
           id == ResolveClientId(header)
           q == checkAndIncrement(clientUsage, id, now)
           bs == MakeBatches(texts, MAX_CHARS)
           bat == [batches EXCEPT ![r] = bs]
           L0 == [Limiter EXCEPT !.promise[r] = Repeat(Pending, Len(bs))]
           L == SettleBypassed(AddAll(L0, Tasks(r, Len(bs)), bat, now, Bypass),
                               bat, now, Bypass)
       IN  /\ input' = [input EXCEPT ![r] = [entries |-> entries, header |-> header]]
           /\ clientId' = [clientId EXCEPT ![r] = id]
           /\ clientUsage' = q.clientUsage
           /\ lastRet' = q.ret
           /\ IF ~Admits(q)
              THEN /\ res' = [res EXCEPT ![r] = RateLimitRes]
                   /\ pc' = [pc EXCEPT ![r] = "done"]
                   /\ UNCHANGED <<batches, promise, queue, intervalCount, pendingCount,
                                  intervalId, nextTick, intervalEnd, timeoutId,
                                  inFlight, startLog, callLog, addLog, admitLog>>
              ELSE /\ admitLog' = [admitLog EXCEPT ![id] = Append(@, now)]
                   /\ batches' = bat
                   /\ Install(L, [pc EXCEPT ![r] = "awaiting"])
    /\ UNCHANGED <<now, debugMode, debugApiMode, outOfOrder, replyLog, calls, advances,
                   bvars>>

\* the repeating timer of the queue fires, one interval after it fired
\* last (or was started)
IntervalTick ==
    /\ intervalId
    /\ LET t == nextTick
           L1 == SettleBypassed(OnInterval(Limiter, batches, t, Bypass), batches, t, Bypass)
           L == IF L1.intervalId THEN [L1 EXCEPT !.nextTick = t + interval] ELSE L1
       IN  /\ now' = t
           /\ Install(L, pc)
    /\ UNCHANGED <<clientUsage, admitLog, lastRet, calls, advances, debugMode,
                   debugApiMode, input, clientId, batches, outOfOrder, replyLog, bvars>>

\* the one-shot timer fires at intervalEnd: the interval callback runs,
\* the repeating timer is started again
ResumeInterval ==
    /\ timeoutId
    /\ LET t == intervalEnd
           L1 == InitializeIntervalIfNeeded(OnInterval(Limiter, batches, t, Bypass), t)
           L == SettleBypassed([L1 EXCEPT !.timeoutId = FALSE], batches, t, Bypass)
       IN  /\ now' = t
           /\ Install(L, pc)
    /\ UNCHANGED <<clientUsage, admitLog, lastRet, calls, advances, debugMode,
                   debugApiMode, input, clientId, batches, outOfOrder, replyLog, bvars>>

\* anthropic.messages.create settles for a task: the task runs to its end
\* (lines 239-253), the queue counts it finished and tries to start another
RemoteReply(task, reply) ==
    /\ task \in inFlight
    /\ LET r == task[1]
           i == task[2]
           out == TaskAfterReply(batches[r][i], reply, debugApiMode)
           L0 == [Limiter EXCEPT
                     !.promise[r][i] = IF out.ok THEN Fulfilled(out.value)
                                       ELSE Rejected(out.error),
                     !.inFlight = @ \ {task},
                     !.pendingCount = @ - 1]
           L == TryToStartAnother(L0, batches, now, Bypass)
       IN  Install(L, pc)
    /\ outOfOrder' = [outOfOrder EXCEPT ![task[1]] =
                          @ \/ \E j \in 1 .. task[2] - 1 :
                                  promise[task[1]][j].state = "pending"]
    /\ replyLog' = replyLog \cup {[task |-> task, reply |-> reply]}
    /\ UNCHANGED <<qvars, debugMode, debugApiMode, input, clientId, batches, bvars>>

\* Time passes without a timer firing. The program reads the clock when a
\* request arrives (line 196) and when the queue tries to start a task, so
\* a delay is taken where it can be read afterwards: once the queue has
\* started a task, while a request is yet to arrive, and never past the
\* instant of an armed timer.
DelaySteps == {400}

Delay(d) ==
    /\ advances < MaxDelays
    /\ \E r \in Reqs : pc[r] = "idle"
    /\ startLog # <<>>
    /\ intervalId => now + d <= nextTick
    /\ timeoutId => now + d <= intervalEnd
    /\ now' = now + d
    /\ advances' = advances + 1
    /\ UNCHANGED <<clientUsage, admitLog, lastRet, calls, hvars, bvars>>

\* an hour passes while the queue is empty: the repeating timer, if it
\* runs, fires once in between and finds nothing to start
HourPasses ==
    /\ queue = <<>>
    /\ ~timeoutId
    /\ now < windowMs
    /\ now' = now + windowMs + interval
    /\ Install(IF intervalId THEN OnInterval(Limiter, batches, nextTick, Bypass)
               ELSE Limiter,
               pc)
    /\ UNCHANGED <<clientUsage, admitLog, lastRet, calls, advances, debugMode,
                   debugApiMode, input, clientId, batches, outOfOrder, replyLog, bvars>>

NoInput == [entries |-> <<>>, header |-> NoHeader]

InitHandler ==
    /\ now = 0
    /\ pc = [r \in Reqs |-> "idle"]
    /\ input = [r \in Reqs |-> NoInput]
    /\ clientId = [r \in Reqs |-> ""]
    /\ batches = [r \in Reqs |-> <<>>]
    /\ promise = [r \in Reqs |-> <<>>]
    /\ res = [r \in Reqs |-> NoRes]
    /\ queue = <<>>
    /\ intervalCount = 0
    /\ intervalId = FALSE
    /\ nextTick = 0
    /\ intervalEnd = -1
    /\ timeoutId = FALSE
    /\ pendingCount = 0
    /\ inFlight = {}
    /\ startLog = <<>>
    /\ callLog = {}
    /\ outOfOrder = [r \in Reqs |-> FALSE]
    /\ addLog = <<>>
    /\ replyLog = {}
    /\ lastRet = TRUE
    /\ calls = 0
    /\ advances = 0

InitBatchIdle ==
    /\ bTexts = <<>>
    /\ bCeiling = MAX_CHARS
    /\ bBatches = <<>>
    /\ bDone = FALSE

InitRest == InitHandler /\ InitBatchIdle

Preloaded(n) ==
    /\ clientUsage = Admitted(EmptyMap, "u1", 0, n)
    /\ admitLog = [c \in CallerIds |-> IF c = "u1" THEN Repeat(0, n) ELSE <<>>]

\* Concurrent requests with the debug flags off.
Init ==
    /\ \E n \in Preloads : Preloaded(n)
    /\ debugMode = FALSE
    /\ debugApiMode = FALSE
    /\ InitRest

Next ==
    \/ \E r \in Reqs, entries \in CoreEntryLists, header \in CoreHeaders :
          Handle(r, entries, header)
    \/ IntervalTick
    \/ ResumeInterval
    \/ \E task \in inFlight : \E reply \in CoreReplies(batches[task[1]][task[2]]) :
          RemoteReply(task, reply)
    \/ \E d \in DelaySteps : Delay(d)
    \/ HourPasses

Spec == Init /\ [][Next]_vars

\* every task that can exist within the bounds
AllTasks == Reqs \X (1 .. MaxTasks)

\* the remote call of the task settles, one way or another
Settles(task) ==
    /\ task \in inFlight
    /\ \E reply \in CoreReplies(batches[task[1]][task[2]]) : RemoteReply(task, reply)

\* Concurrent requests, "u1" one admission short of its limit, where the
\* interval timer of the queue keeps firing while a task waits and every
\* remote call that was started settles.
InitFair ==
    /\ Preloaded(9)
    /\ debugMode = FALSE
    /\ debugApiMode = FALSE
    /\ InitRest

NextFair ==
    \/ \E r \in Reqs, entries \in CoreEntryLists, header \in CoreHeaders :
          Handle(r, entries, header)
    \/ IntervalTick
    \/ ResumeInterval
    \/ \E task \in inFlight : \E reply \in CoreReplies(batches[task[1]][task[2]]) :
          RemoteReply(task, reply)

FairSpec ==
    /\ InitFair
    /\ [][NextFair]_vars
    /\ WF_vars(IntervalTick)
    /\ WF_vars(ResumeInterval)
    /\ \A task \in AllTasks : WF_vars(Settles(task))

\* One request, under every setting of the debug flags, every header and
\* every kind of reply.
InitOne ==
    /\ \E n \in Preloads : Preloaded(n)
    /\ debugMode \in BOOLEAN
    /\ debugApiMode \in BOOLEAN
    /\ InitRest

NextOne ==
    \/ \E entries \in EntryLists, header \in Headers : Handle(1, entries, header)
    \/ IntervalTick
    \/ \E task \in inFlight : \E reply \in Replies(batches[task[1]][task[2]]) :
          RemoteReply(task, reply)
    \/ HourPasses

SpecOne == InitOne /\ [][NextOne]_vars

(* ------------------------------------------------------------------ *)
(* One request under every shape of the x-ms-client-principal header  *)
(* ------------------------------------------------------------------ *)
NameIdClaim(v) == [typ |-> NameIdTyp, val |-> v]

IdentityHeaders ==
    Headers \cup
    { NullPrincipalHeader,
      PrincipalHeader([userId |-> "u1", claims |-> <<NameIdClaim("u2")>>]),
      PrincipalHeader([userId |-> "", claims |-> <<NameIdClaim("u2")>>]),
      PrincipalHeader([claims |-> <<>>]),
      PrincipalHeader([claims |-> <<[typ |-> NameTyp, val |-> "x"]>>]),
      PrincipalHeader([claims |-> <<NameIdClaim(""), NameIdClaim("u2")>>]),
      PrincipalHeader([claims |-> <<[val |-> "x"], NameIdClaim("u2")>>]),
      PrincipalHeader([claims |-> <<[typ |-> NameIdentifier, val |-> "u2"]>>]),
      PrincipalHeader([claims |-> <<[typ |-> UrnNameIdTyp, val |-> "u2"]>>]),
      PrincipalHeader([claims |-> <<[typ |-> UpperNameIdTyp, val |-> "u2"],
                                    [typ |-> NameTyp, val |-> "u1"]>>]) }

NextIdentity ==
    \/ \E entries \in CoreEntryLists, header \in IdentityHeaders :
          Handle(1, entries, header)
    \/ IntervalTick
    \/ \E task \in inFlight : \E reply \in CoreReplies(batches[task[1]][task[2]]) :
          RemoteReply(task, reply)
    \/ HourPasses

SpecIdentity == Init /\ [][NextIdentity]_vars

(* ------------------------------------------------------------------ *)
(* The batching loop alone                                            *)
(* ------------------------------------------------------------------ *)
BatchTexts ==
    { Str("a", 1), Str("b", 1), Str("c", 2), Str("d", 3),
      Str("e", 2500), Str("f", MAX_CHARS), Str("g", MAX_CHARS + 1) }

Ceilings == {1, 2, MAX_CHARS}

SeqsUpTo(S, n) == UNION {[1 .. k -> S] : k \in 0 .. n}

InitBatch ==
    /\ bTexts \in SeqsUpTo(BatchTexts, MaxTexts)
    /\ bCeiling \in Ceilings
    /\ bBatches = <<>>
    /\ bDone = FALSE
    /\ Preloaded(0)
    /\ debugMode = FALSE
    /\ debugApiMode = FALSE
    /\ InitHandler

\* lines 201-213 on the texts bTexts with the ceiling bCeiling
RunBatching ==
    /\ ~bDone
    /\ bBatches' = MakeBatches(bTexts, bCeiling)
    /\ bDone' = TRUE
    /\ UNCHANGED <<bTexts, bCeiling, hvars, qvars>>

NextBatch == RunBatching

SpecBatch == InitBatch /\ [][NextBatch]_vars

(* ------------------------------------------------------------------ *)
(* checkAndIncrement alone, against the clock                         *)
(* ------------------------------------------------------------------ *)
ClockSteps == {1, windowMs}

InitQuota ==
    /\ Preloaded(0)
    /\ debugMode = FALSE
    /\ debugApiMode = FALSE
    /\ InitRest

\* one call of checkAndIncrement(id) at the current time
QuotaCall(id) ==
    /\ calls < MaxCalls
    /\ LET q == checkAndIncrement(clientUsage, id, now)
       IN  /\ clientUsage' = q.clientUsage
           /\ lastRet' = q.ret
           /\ admitLog' = IF q.ret THEN [admitLog EXCEPT ![id] = Append(@, now)]
                          ELSE admitLog
    /\ calls' = calls + 1
    /\ UNCHANGED <<now, advances, hvars, bvars>>

\* Date.now() moves on
ClockAdvance(d) ==
    /\ advances < MaxAdvances
    /\ now' = now + d
    /\ advances' = advances + 1
    /\ UNCHANGED <<clientUsage, admitLog, lastRet, calls, hvars, bvars>>

NextQuota ==
    \/ \E id \in ClientIds : QuotaCall(id)
    \/ \E d \in ClockSteps : ClockAdvance(d)

SpecQuota == InitQuota /\ [][NextQuota]_vars

(* ------------------------------------------------------------------ *)
(* Properties                                                         *)
(* ------------------------------------------------------------------ *)
IsSuccess(x) == "body" \in DOMAIN x /\ "success" \in DOMAIN x.body /\ x.body.success

IsDiag(x) == "__debugPrompt" \in DOMAIN x

RECURSIVE DropDiag(_)
DropDiag(rs) ==
    IF rs = <<>> THEN <<>>
    ELSE IF IsDiag(Head(rs)) THEN DropDiag(Tail(rs))
    ELSE <<Head(rs)>> \o DropDiag(Tail(rs))

\* C1: in every success response the results other than diagnostic objects
\* are, one for one and in order, the request's filtered texts, whatever
\* the classifier replied.
C1_OneResultPerText ==
    \A r \in Reqs :
        IsSuccess(res[r]) =>
            LET rs == DropDiag(res[r].body.results)
                ts == FilterTexts(input[r].entries)
            IN  /\ Len(rs) = Len(ts)
                /\ \A k \in 1 .. Len(rs) :
                       "text" \in DOMAIN rs[k] /\ rs[k].text = ts[k]

\* C2: the batches, joined in order, are the filtered texts; no text
\* gives no batch.
C2_BatchesConcatToTexts ==
    bDone => /\ Flatten(bBatches) = bTexts
             /\ (bTexts = <<>> => bBatches = <<>>)

C2_Witness ==
    /\ bDone
    /\ Len(bTexts) = 3
    /\ Len(bBatches) >= 2
    /\ \E i \in 1 .. Len(bBatches) : Len(bBatches[i]) = 2

\* C3: a batch whose lengths sum above the ceiling is one text that is
\* itself above the ceiling, and a text above the ceiling is alone in its
\* batch.
C3_CeilingRespected ==
    bDone =>
        \A i \in 1 .. Len(bBatches) :
            /\ SumLen(bBatches[i]) > bCeiling =>
                   Len(bBatches[i]) = 1 /\ StrLen(bBatches[i][1]) > bCeiling
            /\ \A j \in 1 .. Len(bBatches[i]) :
                   StrLen(bBatches[i][j]) > bCeiling => Len(bBatches[i]) = 1

C3_Witness ==
    /\ bDone
    /\ Len(bTexts) = 3
    /\ StrLen(bTexts[1]) <= bCeiling
    /\ StrLen(bTexts[2]) > bCeiling
    /\ StrLen(bTexts[3]) <= bCeiling
    /\ Len(bBatches) = 3

\* C4: every batch handed to the classifier is non-empty.
C4_DispatchedBatchesNonEmpty ==
    \A task \in callLog : Len(batches[task[1]][task[2]]) > 0

\* the admissions of caller c at or after time t
AdmittedSince(c, t) == Cardinality({k \in 1 .. Len(admitLog[c]) : admitLog[c][k] >= t})

\* C5: with requests suspended at their remote calls, every quota record
\* has count <= 200 (anonymous) or <= 10 (identified), and count is the
\* number of admissions of the caller since the record's window started.
C5_CountWithinLimit ==
    \A c \in DOMAIN clientUsage :
        /\ clientUsage[c].count <= (IF c = "anonymous" THEN 200 ELSE 10)
        /\ clientUsage[c].count = AdmittedSince(c, clientUsage[c].resetAt - windowMs)

C5_Witness ==
    /\ \A r \in {1, 2} : pc[r] = "awaiting"
    /\ \E r \in {1, 2} : clientId[r] = "u1"
    /\ Cardinality(inFlight) >= 2
    /\ clientUsage["u1"].count = 10

\* C6: in every interval of one hour, wherever it starts, at most limit
\* requests of a caller are admitted (stated for the hour ending now).
C6_RollingHourWithinLimit ==
    \A c \in ClientIds :
        AdmittedSince(c, now - windowMs + 1) <= (IF c = "anonymous" THEN 200 ELSE 10)

\* the caller's quota is exhausted in the current window
Exhausted(c) ==
    /\ c \in DOMAIN clientUsage
    /\ now <= clientUsage[c].resetAt
    /\ clientUsage[c].count >= (IF c = "anonymous" THEN 200 ELSE 10)

\* C7: a request of a caller whose quota is exhausted is answered 429 with
\* {error: "Hourly limit exceeded"} and no results, adds nothing to the
\* queue, and no remote call is ever made for it.
C7_ExhaustedIsRejected ==
    /\ [][\A r \in Reqs :
             (pc[r] = "idle" /\ pc'[r] # "idle" /\ Exhausted(clientId'[r])) =>
                 /\ res'[r] = [status |-> 429, body |-> [error |-> "Hourly limit exceeded"]]
                 /\ "results" \notin DOMAIN res'[r].body
                 /\ queue' = queue
                 /\ startLog' = startLog
                 /\ callLog' = callLog
                 /\ batches'[r] = <<>>]_vars
    /\ [](\A r \in Reqs :
             ("status" \in DOMAIN res[r] /\ res[r].status = 429) =>
                 /\ \A task \in callLog : task[1] # r
                 /\ \A k \in 1 .. Len(queue) : queue[k][1] # r
                 /\ \A k \in 1 .. Len(startLog) : startLog[k].task[1] # r)

C7_Witness ==
    \E r \in Reqs :
        /\ res[r] = [status |-> 429, body |-> [error |-> "Hourly limit exceeded"]]
        /\ \E o \in Reqs : pc[o] = "awaiting" /\ clientId[o] = clientId[r]
        /\ callLog # {}

\* C8: no two tasks of the shared queue, of whatever requests, are started
\* in the same interval of 1000 ms.
C8_OneStartPerInterval ==
    \A i, j \in 1 .. Len(startLog) :
        i # j => startLog[i].at \div 1000 # startLog[j].at \div 1000

\* C9: at most one remote call is outstanding at any moment.
C9_OneOutstandingCall == Cardinality(inFlight) <= 1

\* what batch i of request r contributed: the value its task returned
Contribution(r, i) ==
    IF promise[r][i].value.type = "array" THEN promise[r][i].value.items
    ELSE <<promise[r][i].value>>

RECURSIVE Offset(_, _)
Offset(r, i) == IF i = 1 THEN 0 ELSE Offset(r, i - 1) + Len(Contribution(r, i - 1))

\* C10: in a success response the results of batch i stand before those
\* of batch j whenever i < j: the results are the batches' contributions
\* at increasing offsets, in whatever order the calls settled.
C10_ResultsInBatchOrder ==
    \A r \in Reqs :
        IsSuccess(res[r]) =>
            LET rs == res[r].body.results
                n == Len(batches[r])
            IN  /\ Len(rs) = Offset(r, n + 1)
                /\ \A i \in 1 .. n : \A k \in 1 .. Len(Contribution(r, i)) :
                       rs[Offset(r, i) + k] = Contribution(r, i)[k]

C10_Witness ==
    \E r \in Reqs :
        /\ IsSuccess(res[r])
        /\ outOfOrder[r]
        /\ Len(batches[r]) = 2
        /\ Len(res[r].body.results) = 2
        /\ res[r].body.results[1].text = HalfB
        /\ res[r].body.results[2].text = HalfC

\* the text is not the serialisation of a JSON value and holds no JSON
\* array or object
NoJsonInside(content) ==
    /\ ~(content.pre = "" /\ content.val.type # "broken")
    /\ content.val.type \notin {"array", "object"}

\* C11: when the remote call for a batch returned text that is neither
\* JSON nor holds a JSON array or object, the batch's task is fulfilled
\* (not rejected) and its results, other than a diagnostic object, are the
\* batch's texts in order, each with category "".
C11_FallbackKeepsBatch ==
    \A e \in replyLog :
        (e.reply.kind = "text" /\ NoJsonInside(e.reply.content)) =>
            LET p == promise[e.task[1]][e.task[2]]
                batch == batches[e.task[1]][e.task[2]]
            IN  /\ p.state = "fulfilled"
                /\ p.value.type = "array"
                /\ DropDiag(p.value.items) =
                       [k \in 1 .. Len(batch) |-> [text |-> batch[k], category |-> ""]]

C11_Witness ==
    \E e \in replyLog :
        /\ e.reply.kind = "text"
        /\ NoJsonInside(e.reply.content)
        /\ e.reply.content.pre = "Sure: "
        /\ IsSuccess(res[e.task[1]])
        /\ Len(batches[e.task[1]]) = 2
        /\ Len(res[e.task[1]].body.results) >= 2

\* C12: when the remote call of some batch of a request failed or returned
\* no text, the request's response is status 500 with body {success: false,
\* error: <message>}: it has no success: true and no results, also when
\* other batches of the request were fulfilled.
C12_FailedBatchGives500 ==
    \A e \in replyLog :
        e.reply.kind \in {"error", "notext"} =>
            LET x == res[e.task[1]]
            IN  /\ DOMAIN x = {"status", "body"}
                /\ x.status = 500
                /\ DOMAIN x.body = {"success", "error"}
                /\ x.body.success = FALSE

C12_Witness ==
    \E e \in replyLog :
        /\ e.reply.kind = "notext"
        /\ e.task[2] = 2
        /\ promise[e.task[1]][1].state = "fulfilled"
        /\ res[e.task[1]] = [status |-> 500,
                             body |-> [success |-> FALSE,
                                       error |-> "Unexpected Anthropic response"]]

\* C13: a request's response is set only when none of its batches is
\* still waiting in the queue or has a remote call outstanding.
C13_RespondsAfterAllBatches ==
    \A r \in Reqs :
        res[r] # NoRes =>
            /\ \A k \in 1 .. Len(queue) : queue[k][1] # r
            /\ \A task \in inFlight : task[1] # r

\* C14: with DEBUG_MODE on and DEBUG_API off no remote call is started,
\* and the response of a request that passed the quota check is success
\* with one {text, category: ""} per filtered text, in the texts' order.
C14_BypassEchoesTexts ==
    (debugMode /\ ~debugApiMode) =>
        /\ callLog = {}
        /\ inFlight = {}
        /\ \A r \in Reqs :
               (res[r] # NoRes /\ "status" \notin DOMAIN res[r]) =>
                   LET ts == FilterTexts(input[r].entries)
                   IN  /\ DOMAIN res[r] = {"headers", "body"}
                       /\ DOMAIN res[r].body = {"success", "results"}
                       /\ res[r].body.success = TRUE
                       /\ res[r].body.results =
                              [k \in 1 .. Len(ts) |-> [text |-> ts[k], category |-> ""]]
        /\ \A r \in Reqs :
               "status" \in DOMAIN res[r] => res[r].status = 429

C14_Witness ==
    /\ debugMode
    /\ ~debugApiMode
    /\ IsSuccess(res[1])
    /\ Len(batches[1]) = 2
    /\ Len(res[1].body.results) = 2
    /\ Len(startLog) = 2

\* C15: DEBUG_API has no effect while DEBUG_MODE is off: a response
\* carries a {__debugPrompt, __debugApiResponse} object only when both
\* flags are on.
C15_DiagOnlyWithBothFlags ==
    \A r \in Reqs :
        (IsSuccess(res[r]) /\ \E k \in 1 .. Len(res[r].body.results) :
                                   IsDiag(res[r].body.results[k]))
            => (debugMode /\ debugApiMode)

\* the positions of the name-identifier claims of a decoded principal
NameIdPositions(claims) ==
    {k \in 1 .. Len(claims) :
        "typ" \in DOMAIN claims[k] /\ TypIncludesNameId(claims[k].typ)}

\* C16: resolving the caller never fails the request and always reaches
\* the quota check.  Without a header, with one that cannot be decoded, or
\* with neither userId nor a name-identifier claim with a value, the quota
\* is charged to "anonymous"; otherwise to userId when present, else to the
\* value of the name-identifier claim.
C16_IdentityNeverFails ==
    \A r \in Reqs :
        pc[r] # "idle" =>
            LET h == input[r].header
                id == clientId[r]
            IN  /\ id \in DOMAIN clientUsage
                /\ res[r] = RateLimitRes \/ admitLog[id] # <<>>
                /\ ("status" \in DOMAIN res[r] /\ res[r].status = 500) =>
                       \E e \in replyLog : e.task[1] = r /\ e.reply.kind # "text"
                /\ h.kind # "json" => id = "anonymous"
                /\ h.kind = "json" =>
                       LET p == h.principal
                           uid == IF "userId" \in DOMAIN p THEN p.userId ELSE ""
                           claims == IF "claims" \in DOMAIN p THEN p.claims ELSE <<>>
                           pos == NameIdPositions(claims)
                           first == CHOOSE k \in pos : \A j \in pos : k <= j
                       IN  /\ uid # "" => id = uid
                           /\ (uid = "" /\ \A k \in pos : claims[k].val = "")
                                  => id = "anonymous"
                           /\ ( /\ uid = ""
                                /\ pos # {}
                                /\ \A k \in 1 .. Len(claims) : "typ" \in DOMAIN claims[k]
                                /\ claims[first].val # "" )
                                  => id = claims[first].val

C16_Witness ==
    /\ pc[1] # "idle"
    /\ input[1].header.kind = "json"
    /\ "userId" \notin DOMAIN input[1].header.principal
    /\ "claims" \in DOMAIN input[1].header.principal
    /\ Len(input[1].header.principal.claims) = 1
    /\ input[1].header.principal.claims[1].typ = UrnNameIdTyp
    /\ clientId[1] = "u2"
    /\ admitLog["u2"] # <<>>
    /\ res[1] # NoRes

\* the three responses the handler can give
IsResponse(x) ==
    \/ /\ DOMAIN x = {"headers", "body"}
       /\ DOMAIN x.body = {"success", "results"}
       /\ x.body.success = TRUE
    \/ x = [status |-> 429, body |-> [error |-> "Hourly limit exceeded"]]
    \/ /\ DOMAIN x = {"status", "body"}
       /\ x.status = 500
       /\ DOMAIN x.body = {"success", "error"}
       /\ x.body.success = FALSE

\* C17: if the timer keeps firing and every started remote call settles,
\* every request the handler was called for is eventually answered, the
\* answer is a success with results, the 429 error or the 500 failure,
\* and once set it never changes.  Stated as: again and again every
\* request the handler was called for stands answered, a request never
\* goes back to not having been handled, and an answer is never replaced.
C17_EveryRequestAnswered ==
    /\ []<>(\A r \in Reqs : pc[r] = "idle" \/ (pc[r] = "done" /\ IsResponse(res[r])))
    /\ [][\A r \in Reqs : pc[r] # "idle" => pc'[r] # "idle"]_vars
    /\ [][\A r \in Reqs : res[r] # NoRes => res'[r] = res[r]]_vars
    /\ [](\A r \in Reqs : res[r] # NoRes <=> pc[r] = "done")

C17_Witness ==
    /\ pc[1] = "done"
    /\ pc[2] = "done"
    /\ "status" \in DOMAIN res[1] /\ res[1].status = 500
    /\ IsSuccess(res[2])
    /\ Len(res[2].body.results) = 2
    /\ Len(startLog) = 4
    /\ inFlight = {}

\* C18: a call of checkAndIncrement for a caller either returns false and
\* leaves clientUsage as it was, the caller's live record having count >=
\* limit, or returns true and leaves the caller's count one higher than in
\* its live record (than 0, with resetAt = now + one hour, when the record
\* was absent or its resetAt had passed); the other callers' records are
\* the same after the call.
C18_CheckAndIncrementFrame ==
    [][calls' = calls + 1 =>
          \E id \in ClientIds :
              LET lim == IF id = "anonymous" THEN 200 ELSE 10
                  live == id \in DOMAIN clientUsage /\ ~(now > clientUsage[id].resetAt)
                  old == IF live THEN clientUsage[id].count ELSE 0
              IN  \/ /\ lastRet' = FALSE
                     /\ clientUsage' = clientUsage
                     /\ live
                     /\ old >= lim
                  \/ /\ lastRet' = TRUE
                     /\ old < lim
                     /\ id \in DOMAIN clientUsage'
                     /\ clientUsage'[id].count = old + 1
                     /\ clientUsage'[id].resetAt =
                            (IF live THEN clientUsage[id].resetAt ELSE now + 60 * 60 * 1000)
                     /\ DOMAIN clientUsage' = DOMAIN clientUsage \cup {id}
                     /\ \A o \in DOMAIN clientUsage \ {id} :
                            clientUsage'[o] = clientUsage[o]]_vars

C18_Witness ==
    /\ lastRet = FALSE
    /\ calls = 12
    /\ "anonymous" \in DOMAIN clientUsage
    /\ clientUsage["u1"].count = 10
    /\ clientUsage["u1"].resetAt = windowMs + 1

\* C19: the tasks are started in the order they were added to the shared
\* queue, whatever requests they belong to: the tasks started so far are
\* the first ones added, in that order, at times that never decrease.
C19_FirstAddedFirstStarted ==
    /\ Len(startLog) <= Len(addLog)
    /\ \A k \in 1 .. Len(startLog) : startLog[k].task = addLog[k]
    /\ \A i, j \in 1 .. Len(startLog) : i < j => startLog[i].at <= startLog[j].at

C19_Witness ==
    /\ Len(addLog) = 4
    /\ Len(startLog) = 4
    /\ addLog[2][1] = 1
    /\ addLog[3][1] = 2
    /\ clientId[1] # clientId[2]
    /\ startLog[2].at < startLog[3].at

\* C20: when the remote call of every batch of an admitted request
\* returned text, the response is success, whatever the text and the
\* debug flags; a 500 response means some call failed or gave no text.
C20_TextNeverFails ==
    \A r \in Reqs :
        /\ ( /\ pc[r] # "idle"
             /\ res[r] # RateLimitRes
             /\ \A i \in 1 .. Len(batches[r]) :
                    \E e \in replyLog : e.task = <<r, i>> /\ e.reply.kind = "text" )
               => IsSuccess(res[r])
        /\ ("status" \in DOMAIN res[r] /\ res[r].status = 500)
               => \E e \in replyLog : e.task[1] = r /\ e.reply.kind # "text"

====
